---- MODULE Spec2Model ----
(***************************************************************************)
(* Model of tools/multi_gpu_pipeline.cc: the pipelined scheduler           *)
(* PipelineSession::Run, the stage worker RequestProcessor::ProcessRequest *)
(* and the per-request RequestExecutionFrame.                              *)
(*                                                                         *)
(* Tensors are records that name the buffer that backs them and the        *)
(* invocation (stage, step) that produced them; a moved-from Ort::Value is *)
(* the record Moved.  The driver thread and the pool's worker threads are  *)
(* the processes; the task pool and the response queue are FIFO sequences. *)
(***************************************************************************)
EXTENDS Integers, Sequences, FiniteSets, TLC

(* ------------------------------ bounds --------------------------------- *)
\* largest req_list.size() explored
MaxReqs == 2
\* largest num_steps explored
MaxSteps == 2
\* largest seq-len of the callers' stage-0 inputs
MaxInputSeqLen == 2
\* batch_size of the requests, as main() builds them
MainBatchSize == 1
\* thread_pool_size of the PipelineSession
PoolSize == 2
\* steps explored past num_steps when the main loop does not stop there
RunawaySteps == 1
\* largest batch size of the logits given to the greedy selection
MaxBatch == 2
\* largest vocabulary size of the logits given to the greedy selection
MaxVocab == 2
\* threads that call CreateRequestId at the same time
MaxThreads == 2
\* calls of CreateRequestId each of the threads makes
MaxCalls == 3
\* places in memory that can hold an onnxruntime::Tensor object
MaxTensorObjs == 2
\* buffers the allocator hands out
MaxAllocs == 3

(* ------------------------------ tensors -------------------------------- *)
\* An Ort::Value: what made it, the buffer that backs it, its seq-len dim.
\* The batch dim is followed for the views created over the frame's
\* preallocated buffers and is 0 for the other tensors.
Tensor(kind, stage, step, name, buf, idx, seqlen) ==
  [kind |-> kind, stage |-> stage, step |-> step, name |-> name,
   buf |-> buf, idx |-> idx, seqlen |-> seqlen, val |-> -1, batch |-> 0]

\* A moved-from Ort::Value (its OrtValue pointer is null).
Moved == Tensor("moved", -1, -1, "", "none", -1, 0)

\* An input name that ProcessRequest leaves unbound.
Unbound == Tensor("unbound", -1, -1, "", "none", -1, 0)

\* The tensors of OrtReq::input_values as main() builds them.
CallerInput(name, seqlen) == Tensor("input", -1, -1, name, "caller_in", -1, seqlen)

\* The Ort::Value the caller put in OrtResp::output_values[j].
CallerSlot(name, j) == Tensor("slot", -1, -1, name, "caller", j, 0)

(* ------------------------------ helpers -------------------------------- *)
Range(s) == {s[i] : i \in 1..Len(s)}

MinOf(S) == CHOOSE x \in S : \A y \in S : x <= y

\* Contains: first |-> found, second |-> 0-based index of the first match or -1
Contains(vec, to_find) ==
  LET hits == {i \in 1..Len(vec) : vec[i] = to_find}
  IN  IF hits # {} THEN [first |-> TRUE, second |-> MinOf(hits) - 1]
      ELSE [first |-> FALSE, second |-> -1]

\* std::map / unordered_map ::emplace : inserts only when the key is absent
MapEmplace(m, k, v) == IF k \in DOMAIN m THEN m ELSE (k :> v) @@ m

EmptyMap == [x \in {} |-> ""]

(* ------------------------------ config --------------------------------- *)
input_ids_name == "input_ids"

position_ids_name == "position_ids"

logits_name == "logits"

ModelConfig(ins, outs, past, present, iomap, seqin) ==
  [input_names |-> ins, output_names |-> outs,
   past_input_names |-> past, present_output_names |-> present,
   inter_stage_output_input_map |-> iomap,
   input_to_use_for_seq_len |-> seqin]

\* one stage: the whole model, logits looped into the token under its own name
OneStage ==
  <<ModelConfig(<<"input_ids", "position_ids", "past_0">>, <<"logits", "present_0">>,
                <<"past_0">>, <<"present_0">>, "logits" :> "logits", "input_ids")>>

\* two stages as in the turing ensemble: hidden_states -> input_hidden_states
TwoStage ==
  <<ModelConfig(<<"input_ids", "position_ids", "past_0", "past_1">>,
                <<"hidden_states", "present_0", "present_1">>,
                <<"past_0", "past_1">>, <<"present_0", "present_1">>,
                "hidden_states" :> "input_hidden_states", "input_ids"),
    ModelConfig(<<"input_hidden_states", "past_0">>, <<"logits", "present_0">>,
                <<"past_0">>, <<"present_0">>, "logits" :> "logits",
                "input_hidden_states")>>

\* three stages; stages 0 and 1 both map to the input name input_hidden_states
ThreeStage ==
  <<ModelConfig(<<"input_ids", "position_ids", "past_0">>, <<"hidden_states", "present_0">>,
                <<"past_0">>, <<"present_0">>,
                "hidden_states" :> "input_hidden_states", "input_ids"),
    ModelConfig(<<"input_hidden_states", "past_0">>, <<"hidden_states", "present_0">>,
                <<"past_0">>, <<"present_0">>,
                "hidden_states" :> "input_hidden_states", "input_hidden_states"),
    ModelConfig(<<"input_hidden_states", "past_0">>, <<"logits", "present_0">>,
                <<"past_0">>, <<"present_0">>, "logits" :> "logits",
                "input_hidden_states")>>

\* one stage whose descriptor has no inter_stage_output_input_map key
OneStageNoMap ==
  <<ModelConfig(<<"input_ids", "position_ids", "past_0">>, <<"logits", "present_0">>,
                <<"past_0">>, <<"present_0">>, EmptyMap, "input_ids")>>

\* one stage whose state output present_0 is also a key of its
\* inter_stage_output_input_map
OneStageCollide ==
  <<ModelConfig(<<"input_ids", "position_ids", "past_0">>, <<"logits", "present_0">>,
                <<"past_0">>, <<"present_0">>,
                ("logits" :> "logits") @@ ("present_0" :> "past_0"), "input_ids")>>

\* the ensembles ParseEnsembleJsonFile may have loaded
PipelineConfigs == <<OneStage, TwoStage, ThreeStage, OneStageNoMap, OneStageCollide>>

\* pcfg.max_seq_len of the ensembles: the seq-len the frame's buffers are
\* sized for
max_seq_len == 2

\* PipelineSession::Validate: accepts every configuration
Validate(pcfg) == TRUE

\* the OrtReq::input_names a caller may pass
ReqNameChoices ==
  <<(<<"input_ids", "position_ids">>), (<<"position_ids">>),
    (<<"input_ids", "position_ids", "past_0">>)>>

\* what a read of input_values[-1] yields when it does not end the process
GarbageDim == -1

\* the OrtResp::output_names a caller may pass
RespNameChoices == <<(<<"logits">>), (<<"logits", "extra">>), (<<"extra">>)>>

(* ------------------------------ state ---------------------------------- *)
VARIABLES
  cfg_choice,      \* index of the loaded ensemble in PipelineConfigs
  num_steps,       \* Run's num_steps
  num_reqs,        \* req_list.size()
  resp_choice,     \* index of the callers' output_names in RespNameChoices
  req_choice,      \* index of the callers' input_names in ReqNameChoices
  next_req_id,     \* the static int req_id of CreateRequestId
  pc,              \* driver: "admit", "loop", "success", "failed"; "aborted"
                   \* once an assert ended the process
  req_idx,         \* the admission loop's req_idx
  req_processed,   \* Run's req_processed
  status,          \* the message of the OrtStatus Run returned
  req_frame_map,   \* ReqId -> RequestExecutionFrame
  resp_list,       \* req index (1-based) -> output_values
  tp_tasks,        \* the pool's FIFO of submitted tasks
  running,         \* ReqId -> the locals of the lambda_helper call in progress
  resp_queue,      \* the ResponseQueue<Token*>, tokens named by their frame
  exec_log,        \* history: ReqId -> the (stage, step) pairs executed
  submitted,       \* history: number of tp.RunTask calls
  raised,          \* history: ReqIds whose worker invocation raised
  done_count,      \* history: ReqId -> times the request was marked complete
  dangling,        \* history: a task ran after Run returned
  greedy_call,     \* a call of GetNewInputIdsFromLogits: arguments and results
  id_calls,        \* the threads inside CreateRequestId and the ids it returned
  frame_alloc,     \* a buffer size computation of the frame's constructor
  tensor_heap      \* onnxruntime::Tensor objects, their buffers and the Free calls

run_vars == <<cfg_choice, num_steps, num_reqs, resp_choice, req_choice,
              next_req_id, pc, req_idx, req_processed, status, req_frame_map,
              resp_list, tp_tasks, running, resp_queue, exec_log, submitted, raised,
              done_count, dangling>>

\* the state of the functions that are followed on their own
side_vars == <<greedy_call, id_calls, frame_alloc, tensor_heap>>

vars == <<run_vars, side_vars>>

params == <<cfg_choice, num_steps, num_reqs, resp_choice, req_choice>>

\* seq-len dim of the stage-0 inputs of the request at index i of req_list:
\* the callers' requests differ in length
ReqSeqLen(i) == 1 + (i % MaxInputSeqLen)

\* OrtResp::output_meminfo[j] of the response at index i of resp_list is
\* non-null: every other caller preallocates its output tensors instead
HasMemInfo(i) == i % 2 = 0

model_config_vec == PipelineConfigs[cfg_choice]

num_stages == Len(model_config_vec)

output_names_of_resp == RespNameChoices[resp_choice]

input_names_of_req == ReqNameChoices[req_choice]

(* ------------------------------ messages ------------------------------- *)
Msg(text, id, oname) == [text |-> text, req_id |-> id, oname |-> oname]

NoError == Msg("", 0, "")

\* an error message that names the request's index in req_list, not its id
WorkerErrorMsgReqIndex(id) == Msg("Error in processing request id: ", id - 1, "")

WorkerErrorMsg(id) == Msg("Error in processing request id: ", id, "")

MissingOutputMsg(oname) == Msg("Error: Output is not produced by the final stage", 0, oname)

NoLogitsMsg == Msg("Did not get logits in the output", 0, "")

(* ------------------------------ token ---------------------------------- *)
\* Token::Init(req_id, step_id, names, values): sets all four
TokenInit(id, step, names, values) ==
  [req_id |-> id, step_id |-> step, ort_value_names |-> names,
   ort_values |-> values, error_msg |-> NoError]

\* Token::Clear(): empties the two vectors
TokenClear(token) == [token EXCEPT !.ort_value_names = <<>>, !.ort_values = <<>>]

(* ------------------------------ queue and pool ------------------------- *)
\* a Put that appends the token twice
PutTwice(queue, token_ptr) == Append(Append(queue, token_ptr), token_ptr)

\* ResponseQueue::Put: appends at the back, never blocks
Put(queue, token_ptr) == Append(queue, token_ptr)

\* ResponseQueue::Get: the token at the front (the caller blocks while empty)
Get(queue) == Head(queue)

\* the pool's threads take the submitted tasks first in, first out
OldestTask(tasks) == Head(tasks)

(* ------------------------------ frame ---------------------------------- *)
\* The RunState the frame's constructor builds for stage idx (0-based).
NewRunState(idx, batch_size0) ==
  LET mcfg == model_config_vec[idx + 1]
      present == mcfg.present_output_names
  IN  [output_val_map |->
         \* one zero-seq-len view per present output, over buffer 1
         [oname \in Range(present) |->
            [Tensor("init", idx, -1, oname, "buf1", Contains(present, oname).second, 0)
               EXCEPT !.batch = batch_size0]],
       inter_stage_output_prealloc_buffer_map |->
         IF idx < num_stages - 1 THEN DOMAIN mcfg.inter_stage_output_input_map ELSE {},
       bound_inputs |-> [x \in {} |-> Unbound],
       bound_outputs |-> [x \in {} |-> Unbound]]

\* RequestExecutionFrame(psess, req_idx0, req_id0, batch_size0, orig_input_seq_len0, stage_id0, ort_resp0)
NewFrame(req_idx0, req_id0, batch_size0, orig_input_seq_len0, stage_id0) ==
  [req_index |-> req_idx0, req_id |-> req_id0, batch_size |-> batch_size0,
   orig_input_seq_len |-> orig_input_seq_len0, stage_id |-> stage_id0,
   token |-> TokenInit(0, 0, <<>>, <<>>),
   model_run_state_vec |-> [g \in 1..num_stages |-> NewRunState(g - 1, batch_size0)]]

\* a task handed to tp.RunTask: the captured token/frame (by req_id) and the
\* captured model_config / session_state (by stage index)
Task(id, stage) == [req_id |-> id, stage |-> stage]

(* ------------------------------ Init ----------------------------------- *)
\* the state of a Run when it is entered
RunInit ==
  /\ cfg_choice \in 1..Len(PipelineConfigs)
  /\ Validate(PipelineConfigs[cfg_choice])
  /\ num_steps \in 0..MaxSteps
  /\ num_reqs \in 0..MaxReqs
  /\ resp_choice \in 1..Len(RespNameChoices)
  \* callers that ask for a name no stage produces are followed on the
  \* ensembles of one and two stages
  /\ resp_choice # 1 => Len(PipelineConfigs[cfg_choice]) <= 2
  /\ req_choice \in 1..Len(ReqNameChoices)
  \* requests that omit an input are followed on the one stage ensemble
  /\ req_choice # 1 => cfg_choice = 1
  /\ next_req_id = 0
  /\ pc = "admit"
  /\ req_idx = 0
  /\ req_processed = 0
  /\ status = NoError
  /\ req_frame_map = [r \in {} |-> 0]
  /\ resp_list = [i \in 1..num_reqs |->
                    [j \in 1..Len(RespNameChoices[resp_choice]) |->
                       CallerSlot(RespNameChoices[resp_choice][j], j - 1)]]
  /\ tp_tasks = <<>>
  /\ running = [r \in {} |-> 0]
  /\ resp_queue = <<>>
  /\ exec_log = [r \in {} |-> <<>>]
  /\ submitted = 0
  /\ raised = {}
  /\ done_count = [r \in {} |-> 0]
  /\ dangling = FALSE

\* no call of GetNewInputIdsFromLogits is followed
NoGreedyCall ==
  [pc |-> "none", batch_size |-> 0, produced_shape |-> <<>>, logits_data |-> <<>>,
   logits_shape |-> <<>>, input_ids |-> <<>>, input_ids_shape |-> <<>>]

\* no thread is followed inside CreateRequestId
NoIdCalls == [thread |-> <<>>, returned |-> <<>>]

\* no buffer size computation is followed
NoFrameAlloc ==
  [pc |-> "none", shape |-> <<>>, batch_size |-> 0, max_seq_len |-> 0,
   num_elements |-> 0, size_to_allocate |-> 0]

\* no Tensor object exists
NoTensorHeap == [obj |-> <<>>, buffers |-> {}, freed |-> <<>>]

Init ==
  /\ RunInit
  /\ greedy_call = NoGreedyCall
  /\ id_calls = NoIdCalls
  /\ frame_alloc = NoFrameAlloc
  /\ tensor_heap = NoTensorHeap

(* ------------------------------ driver: admission ---------------------- *)
\* a request id that is not advanced past the first
CreateRequestIdRepeats == IF next_req_id = 0 THEN next_req_id + 1 ELSE next_req_id

\* CreateRequestId: return ++req_id
CreateRequestId == next_req_id + 1

\* OrtReq::input_values of the request at index i of req_list
ReqInputValues(i) ==
  [j \in 1..Len(input_names_of_req) |-> CallerInput(input_names_of_req[j], ReqSeqLen(i))]

\* One iteration of Run's admission loop.  When the request lacks the input
\* named input_to_use_for_seq_len and no assert stops it, the shape is read
\* from input_values[-1].
Admit ==
  /\ pc = "admit"
  /\ req_idx < num_reqs
  /\ LET req_id == CreateRequestId
         input_names == input_names_of_req
         input_values == ReqInputValues(req_idx)
         rc == Contains(input_names, model_config_vec[1].input_to_use_for_seq_len)
         orig_seq_len == IF rc.first THEN input_values[rc.second + 1].seqlen
                         ELSE GarbageDim
         batch_size == IF rc.first THEN MainBatchSize ELSE GarbageDim
         frame == NewFrame(req_idx, req_id, batch_size, orig_seq_len, 0)
     IN  /\ next_req_id' = req_id
         /\ req_frame_map' = (req_id :> [frame EXCEPT
                                 !.token = TokenInit(req_id, 0, input_names, input_values)])
                             @@ req_frame_map
         /\ tp_tasks' = Append(tp_tasks, Task(req_id, 0))
         /\ exec_log' = (req_id :> <<>>) @@ exec_log
         /\ done_count' = (req_id :> 0) @@ done_count
  /\ req_idx' = req_idx + 1
  /\ submitted' = submitted + 1
  /\ UNCHANGED <<params, side_vars, pc, req_processed, status, resp_list, running, resp_queue,
                 raised, dangling>>

\* The assert on the request's input names fails in a build that keeps
\* asserts, or the read of input_values[-1] ends the process.
AdmitAbort ==
  /\ pc = "admit"
  /\ req_idx < num_reqs
  /\ ~Contains(input_names_of_req, model_config_vec[1].input_to_use_for_seq_len).first
  /\ next_req_id' = CreateRequestId
  /\ pc' = "aborted"
  /\ UNCHANGED <<params, side_vars, req_idx, req_processed, status, req_frame_map, resp_list,
                 tp_tasks, running, resp_queue, exec_log, submitted, raised,
                 done_count, dangling>>

\* The admission loop ends; Run enters the main loop.
AdmitDone ==
  /\ pc = "admit"
  /\ req_idx >= num_reqs
  /\ pc' = "loop"
  /\ UNCHANGED <<params, side_vars, next_req_id, req_idx, req_processed, status, req_frame_map,
                 resp_list, tp_tasks, running, resp_queue, exec_log, submitted, raised,
                 done_count, dangling>>

(* ------------------------------ stage worker --------------------------- *)
\* what a freed host buffer holds once the allocator handed it out again
ReusedHostValue == -2

\* what a read of tensor t's elements can yield: the vector behind a tensor the
\* driver built for the next step is destroyed before the task is submitted
\* (val is -1 for the tensors whose elements the model does not follow)
HostReadOutcomes(t) ==
  IF t.buf = "host_local" /\ t.val >= 0 THEN {t.val, ReusedHostValue} ELSE {t.val}

\* the element values the stage's run can read from the token's tensors
HostReads(in_values) ==
  {reads \in [1..Len(in_values) -> {in_values[i].val : i \in 1..Len(in_values)}
                                     \cup {ReusedHostValue}] :
     \A i \in 1..Len(in_values) : reads[i] \in HostReadOutcomes(in_values[i])}

AllMoved(values) == [i \in 1..Len(values) |-> Moved]

\* an input binding that prefers the held state to the token's tensor
BindInputsStateFirst(mcfg, in_names, in_values, output_val_map) ==
  [iname \in Range(mcfg.input_names) |->
     LET rc == Contains(in_names, iname)
         rp == Contains(mcfg.past_input_names, iname)
     IN  IF rp.first
         THEN output_val_map[mcfg.present_output_names[rp.second + 1]]
         ELSE IF rc.first THEN in_values[rc.second + 1] ELSE Unbound]

\* ProcessRequest, input binding: the token's tensor first, else the state
\* held under the matching present output name, else nothing
BindInputs(mcfg, in_names, in_values, output_val_map) ==
  [iname \in Range(mcfg.input_names) |->
     LET rc == Contains(in_names, iname)
         rp == Contains(mcfg.past_input_names, iname)
     IN  IF rc.first THEN in_values[rc.second + 1]
         ELSE IF rp.first
              THEN output_val_map[mcfg.present_output_names[rp.second + 1]]
              ELSE Unbound]

\* seq len of the incoming tensor named input_to_use_for_seq_len; without
\* that tensor, what the read of in_values[-1] yields
InputSeqLen(mcfg, in_names, in_values) ==
  LET rc == Contains(in_names, mcfg.input_to_use_for_seq_len)
  IN  IF rc.first THEN in_values[rc.second + 1].seqlen ELSE GarbageDim

\* seq len of the state currently held for present_output_names[0]
PastSeqLen(mcfg, output_val_map) ==
  output_val_map[mcfg.present_output_names[1]].seqlen

\* a state output written to buffer 2 in every step
StateOutputBufferFixed(step_id) == "buf2"

\* the preallocated buffer a state output is written to in this step
StateOutputBuffer(step_id) == IF step_id % 2 = 0 THEN "buf2" ELSE "buf1"

\* ProcessRequest, output binding of one output name
BindOutput(mcfg, req_index, batch_size0, stage, step_id, oname, input_seq_len, new_seq_len) ==
  LET rc == Contains(mcfg.present_output_names, oname)
      rr == Contains(output_names_of_resp, oname)
  IN  IF rc.first
      THEN [Tensor("out", stage, step_id, oname, StateOutputBuffer(step_id),
                   rc.second, new_seq_len) EXCEPT !.batch = batch_size0]
      ELSE IF rr.first
           THEN IF HasMemInfo(req_index)
                THEN Tensor("out", stage, step_id, oname, "device", rr.second,
                            input_seq_len)
                ELSE Tensor("out", stage, step_id, oname, "caller", rr.second,
                            input_seq_len)
           ELSE [Tensor("out", stage, step_id, oname, "inter", -1, input_seq_len)
                   EXCEPT !.batch = batch_size0]

\* inter_stage_output_prealloc_buffer_map.at(oname) throws std::out_of_range
OutputBindingThrows(mcfg, run_state) ==
  \E oname \in Range(mcfg.output_names) :
     /\ ~Contains(mcfg.present_output_names, oname).first
     /\ ~Contains(output_names_of_resp, oname).first
     /\ oname \notin run_state.inter_stage_output_prealloc_buffer_map

\* the asserts of ProcessRequest on its inputs hold
ProcessRequestAsserts(mcfg, in_names) ==
  /\ Contains(in_names, mcfg.input_to_use_for_seq_len).first
  /\ Contains(mcfg.output_names, mcfg.present_output_names[1]).first

\* A pool thread takes the oldest task and runs lambda_helper up to the
\* stage's Run: moves the token's values out and binds inputs and outputs.
WorkerStart ==
  /\ pc # "aborted"
  /\ tp_tasks # <<>>
  /\ Cardinality(DOMAIN running) < PoolSize
  /\ LET task == OldestTask(tp_tasks)
         r == task.req_id
         exec_frame == req_frame_map[r]
         token == exec_frame.token
         mcfg == model_config_vec[task.stage + 1]
         model_idx == exec_frame.stage_id
         run_state == exec_frame.model_run_state_vec[model_idx + 1]
         in_names == token.ort_value_names
         in_values == token.ort_values
         input_seq_len == InputSeqLen(mcfg, in_names, in_values)
         past_seq_len == PastSeqLen(mcfg, run_state.output_val_map)
         new_seq_len == input_seq_len + past_seq_len
     IN  /\ tp_tasks' = Tail(tp_tasks)
         /\ \E reads \in HostReads(in_values) :
              running' = (r :> [stage |-> task.stage, model_idx |-> model_idx,
                                step_id |-> token.step_id,
                                in_names |-> in_names, in_values |-> in_values,
                                host_reads |-> reads,
                                throws |-> OutputBindingThrows(mcfg, run_state)])
                         @@ running
         /\ req_frame_map' =
              [req_frame_map EXCEPT
                 ![r].token.ort_values = AllMoved(in_values),
                 ![r].model_run_state_vec[model_idx + 1].bound_inputs =
                    BindInputs(mcfg, in_names, in_values, run_state.output_val_map),
                 ![r].model_run_state_vec[model_idx + 1].bound_outputs =
                    [oname \in Range(mcfg.output_names) |->
                       BindOutput(mcfg, exec_frame.req_index, exec_frame.batch_size, model_idx,
                                  token.step_id, oname,
                                  input_seq_len, new_seq_len)]]
         /\ exec_log' = [exec_log EXCEPT ![r] = Append(@, <<model_idx, token.step_id>>)]
  /\ dangling' = (dangling \/ pc \in {"success", "failed"})
  /\ UNCHANGED <<params, side_vars, next_req_id, pc, req_idx, req_processed, status, resp_list,
                 resp_queue, submitted, raised, done_count>>

\* An assert of ProcessRequest on its inputs fails in a build that keeps
\* asserts, or the read of in_values[-1] ends the process, while Run is in
\* progress.
WorkerStartAbort ==
  /\ pc \in {"admit", "loop"}
  /\ tp_tasks # <<>>
  /\ Cardinality(DOMAIN running) < PoolSize
  /\ LET task == OldestTask(tp_tasks)
     IN  ~ProcessRequestAsserts(model_config_vec[task.stage + 1],
                                req_frame_map[task.req_id].token.ort_value_names)
  /\ pc' = "aborted"
  /\ UNCHANGED <<params, side_vars, next_req_id, req_idx, req_processed, status, req_frame_map,
                 resp_list, tp_tasks, running, resp_queue, exec_log, submitted, raised,
                 done_count, dangling>>

\* ProcessRequest after the run: save the states, append the inter-stage
\* outputs to the token, for the outputs i..end in order
RECURSIVE SaveOutputs(_, _, _, _, _)
SaveOutputs(mcfg, vec_out_vals, i, output_val_map, token) ==
  IF i > Len(mcfg.output_names) THEN [output_val_map |-> output_val_map, token |-> token]
  ELSE LET oname == mcfg.output_names[i]
           iomap == mcfg.inter_stage_output_input_map
       IN  IF Contains(mcfg.present_output_names, oname).first
           THEN SaveOutputs(mcfg, vec_out_vals, i + 1,
                            MapEmplace(output_val_map, oname, vec_out_vals[oname]), token)
           ELSE IF oname \in DOMAIN iomap
                THEN SaveOutputs(mcfg, vec_out_vals, i + 1, output_val_map,
                                 [token EXCEPT
                                    !.ort_value_names = Append(@, iomap[oname]),
                                    !.ort_values = Append(@, vec_out_vals[oname])])
                ELSE SaveOutputs(mcfg, vec_out_vals, i + 1, output_val_map, token)

\* the stage's run wrote into the caller's preallocated response tensors
WriteCallerSlots(slots, vec_out_vals) ==
  [j \in 1..Len(slots) |->
     IF /\ output_names_of_resp[j] \in DOMAIN vec_out_vals
        /\ vec_out_vals[output_names_of_resp[j]].buf = "caller"
        /\ vec_out_vals[output_names_of_resp[j]].idx = j - 1
     THEN vec_out_vals[output_names_of_resp[j]]
     ELSE slots[j]]

\* The stage's Run returns; ProcessRequest saves the outputs and returns the
\* token; lambda_helper puts it on the response queue.
WorkerFinish(r) ==
  /\ pc # "aborted"
  /\ r \in DOMAIN running
  /\ ~running[r].throws
  /\ LET exec_frame == req_frame_map[r]
         mcfg == model_config_vec[running[r].stage + 1]
         model_idx == running[r].model_idx
         run_state == exec_frame.model_run_state_vec[model_idx + 1]
         vec_out_vals == run_state.bound_outputs
         saved == SaveOutputs(mcfg, vec_out_vals, 1, run_state.output_val_map,
                              exec_frame.token)
     IN  /\ req_frame_map' =
              [req_frame_map EXCEPT
                 ![r].token = saved.token,
                 ![r].model_run_state_vec[model_idx + 1].output_val_map =
                    saved.output_val_map]
         /\ resp_list' = [resp_list EXCEPT ![exec_frame.req_index + 1] =
                            WriteCallerSlots(@, vec_out_vals)]
  /\ running' = [x \in DOMAIN running \ {r} |-> running[x]]
  /\ resp_queue' = Put(resp_queue, r)
  /\ dangling' = (dangling \/ pc \in {"success", "failed"})
  /\ UNCHANGED <<params, side_vars, next_req_id, pc, req_idx, req_processed, status, tp_tasks,
                 exec_log, submitted, raised, done_count>>

\* ProcessRequest throws; lambda_helper's handlers write the error into the
\* frame's token and put it on the response queue.
WorkerRaise(r) ==
  /\ pc # "aborted"
  /\ r \in DOMAIN running
  /\ LET token == req_frame_map[r].token
     IN  req_frame_map' =
           [req_frame_map EXCEPT
              ![r].token.req_id = token.req_id,
              ![r].token.step_id = token.step_id,
              ![r].token.error_msg = WorkerErrorMsg(token.req_id)]
  /\ running' = [x \in DOMAIN running \ {r} |-> running[x]]
  /\ resp_queue' = Put(resp_queue, r)
  /\ raised' = raised \cup {r}
  /\ dangling' = (dangling \/ pc \in {"success", "failed"})
  /\ UNCHANGED <<params, side_vars, next_req_id, pc, req_idx, req_processed, status, resp_list,
                 tp_tasks, exec_log, submitted, done_count>>

\* the condition the assert of the post-run loop negates: the output is a
\* state output and also a key of inter_stage_output_input_map
LoopBackAndInterStage(mcfg, oname) ==
  /\ Contains(mcfg.present_output_names, oname).first
  /\ oname \in DOMAIN mcfg.inter_stage_output_input_map

\* The stage's Run returned and the assert of the post-run loop fails: a build
\* that keeps asserts ends the process while Run is in progress (a build
\* without them goes on as WorkerFinish does).
WorkerAbort(r) ==
  /\ pc \in {"admit", "loop"}
  /\ r \in DOMAIN running
  /\ ~running[r].throws
  /\ \E oname \in Range(model_config_vec[running[r].stage + 1].output_names) :
        LoopBackAndInterStage(model_config_vec[running[r].stage + 1], oname)
  /\ pc' = "aborted"
  /\ UNCHANGED <<params, side_vars, next_req_id, req_idx, req_processed, status, req_frame_map,
                 resp_list, tp_tasks, running, resp_queue, exec_log, submitted, raised,
                 done_count, dangling>>

(* ------------------------------ driver: main loop ---------------------- *)
\* a host tensor of shape (batch_size, 1) the driver builds for the next step
HostTensor(name, step_id, value) ==
  [Tensor("host", -1, step_id, name, "host_local", -1, 1) EXCEPT !.val = value]

\* the vector behind the host tensor t was local to the block that built the
\* next step's tensors and was destroyed when the block ended
HostBufferReleased(t) == t.kind = "host" /\ t.buf = "host_local"

\* the final move indexing the token by the response index, not by the match
RECURSIVE MoveOutputsByRespIndex(_, _, _)
MoveOutputsByRespIndex(j, slots, token) ==
  IF j > Len(output_names_of_resp)
  THEN [ok |-> TRUE, slots |-> slots, token |-> token, oname |-> ""]
  ELSE LET oname == output_names_of_resp[j]
           ex == Contains(token.ort_value_names, oname)
       IN  IF ex.first
           THEN MoveOutputsByRespIndex(j + 1,
                            [slots EXCEPT ![j] = token.ort_values[j]],
                            [token EXCEPT !.ort_values[j] = Moved])
           ELSE [ok |-> FALSE, slots |-> slots, token |-> token, oname |-> oname]

\* Run's loop over resp_list[req_index].output_names from index j on: move the
\* token's value into the slot, or stop at the first name the token lacks
RECURSIVE MoveOutputs(_, _, _)
MoveOutputs(j, slots, token) ==
  IF j > Len(output_names_of_resp)
  THEN [ok |-> TRUE, slots |-> slots, token |-> token, oname |-> ""]
  ELSE LET oname == output_names_of_resp[j]
           ex == Contains(token.ort_value_names, oname)
       IN  IF ex.first
           THEN MoveOutputs(j + 1,
                            [slots EXCEPT ![j] = token.ort_values[ex.second + 1]],
                            [token EXCEPT !.ort_values[ex.second + 1] = Moved])
           ELSE [ok |-> FALSE, slots |-> slots, token |-> token, oname |-> oname]

\* resp_queue.Get() can return: the loop runs and a token is queued
CanGet == pc = "loop" /\ req_processed < num_reqs /\ resp_queue # <<>>

\* a stage advance that skips a stage
NextStageIdSkips(r) == (req_frame_map[r].stage_id + 2) % num_stages

\* exec_frame.stage_id = (exec_frame.stage_id + 1) % pcfg.num_stages
NextStageId(r) == (req_frame_map[r].stage_id + 1) % num_stages

\* a step counter that is read but not advanced
NextStepIdStale(token) == token.step_id

\* a step counter advanced by two
NextStepIdSkips(token) == token.step_id + 2

\* ++step_id, once the stage id wrapped to 0
NextStepId(token) == token.step_id + 1

\* a task that is never handed to the pool
RunTaskDropped(tasks, r, stage) == tasks

\* a task submitted twice
RunTaskTwice(tasks, r, stage) == Append(Append(tasks, [req_id |-> r, stage |-> stage]),
                                        [req_id |-> r, stage |-> stage])

\* tp.RunTask of the lambda capturing the token, the frame and the stage's config
RunTask(tasks, r, stage) == Append(tasks, Task(r, stage))

\* The dequeued token carries an error: Run returns it.
DriverError ==
  /\ CanGet
  /\ LET r == Get(resp_queue)
         token == req_frame_map[r].token
     IN  /\ token.error_msg # NoError
         /\ status' = token.error_msg
  /\ resp_queue' = Tail(resp_queue)
  /\ pc' = "failed"
  /\ UNCHANGED <<params, side_vars, next_req_id, req_idx, req_processed, req_frame_map, resp_list,
                 tp_tasks, running, exec_log, submitted, raised, done_count, dangling>>

\* The token comes from a stage before the last: forward it to the next stage.
DriverForward ==
  /\ CanGet
  /\ LET r == Get(resp_queue)
         token == req_frame_map[r].token
     IN  /\ token.error_msg = NoError
         /\ NextStageId(r) # 0
         /\ req_frame_map' = [req_frame_map EXCEPT
                                ![r].stage_id = NextStageId(r),
                                ![r].token.req_id = token.req_id,
                                ![r].token.step_id = token.step_id]
         /\ tp_tasks' = RunTask(tp_tasks, r, NextStageId(r))
  /\ resp_queue' = Tail(resp_queue)
  /\ submitted' = submitted + 1
  /\ UNCHANGED <<params, side_vars, next_req_id, pc, req_idx, req_processed, status, resp_list,
                 running, exec_log, raised, done_count, dangling>>

\* The token comes from the last stage of the last step: move the outputs.
DriverFinal ==
  /\ CanGet
  /\ LET r == Get(resp_queue)
         exec_frame == req_frame_map[r]
         token == exec_frame.token
         req_index == exec_frame.req_index
         moved == MoveOutputs(1, resp_list[req_index + 1], token)
     IN  /\ token.error_msg = NoError
         /\ NextStageId(r) = 0
         /\ NextStepId(token) = num_steps
         /\ moved.ok
         /\ req_frame_map' = [req_frame_map EXCEPT ![r].stage_id = 0,
                                                   ![r].token = moved.token]
         /\ resp_list' = [resp_list EXCEPT ![req_index + 1] = moved.slots]
         /\ done_count' = [done_count EXCEPT ![r] = @ + 1]
  /\ resp_queue' = Tail(resp_queue)
  /\ req_processed' = req_processed + 1
  /\ UNCHANGED <<params, side_vars, next_req_id, pc, req_idx, status, tp_tasks, running, exec_log,
                 submitted, raised, dangling>>

\* As DriverFinal, but the token lacks a requested output name: Run fails.
DriverFinalMissing ==
  /\ CanGet
  /\ LET r == Get(resp_queue)
         exec_frame == req_frame_map[r]
         token == exec_frame.token
         req_index == exec_frame.req_index
         moved == MoveOutputs(1, resp_list[req_index + 1], token)
     IN  /\ token.error_msg = NoError
         /\ NextStageId(r) = 0
         /\ NextStepId(token) = num_steps
         /\ ~moved.ok
         /\ req_frame_map' = [req_frame_map EXCEPT ![r].stage_id = 0,
                                                   ![r].token = moved.token]
         /\ resp_list' = [resp_list EXCEPT ![req_index + 1] = moved.slots]
         /\ status' = MissingOutputMsg(moved.oname)
  /\ resp_queue' = Tail(resp_queue)
  /\ pc' = "failed"
  /\ UNCHANGED <<params, side_vars, next_req_id, req_idx, req_processed, tp_tasks, running,
                 exec_log, submitted, raised, done_count, dangling>>

\* A step ended short of num_steps but the token has no logits: Run fails.
DriverNoLogits ==
  /\ CanGet
  /\ LET r == Get(resp_queue)
         token == req_frame_map[r].token
     IN  /\ token.error_msg = NoError
         /\ NextStageId(r) = 0
         /\ NextStepId(token) # num_steps
         /\ ~Contains(token.ort_value_names, logits_name).first
         /\ req_frame_map' = [req_frame_map EXCEPT ![r].stage_id = 0]
  /\ status' = NoLogitsMsg
  /\ resp_queue' = Tail(resp_queue)
  /\ pc' = "failed"
  /\ UNCHANGED <<params, side_vars, next_req_id, req_idx, req_processed, resp_list, tp_tasks,
                 running, exec_log, submitted, raised, done_count, dangling>>

\* A step ended short of num_steps: select the next input ids, rebuild the
\* token and submit it to stage 0.
DriverNextStep ==
  /\ CanGet
  /\ LET r == Get(resp_queue)
         exec_frame == req_frame_map[r]
         token == exec_frame.token
         step_id == NextStepId(token)
         new_posn_id == exec_frame.orig_input_seq_len + step_id - 1
         cleared == TokenClear(token)
     IN  /\ token.error_msg = NoError
         /\ NextStageId(r) = 0
         /\ step_id # num_steps
         /\ step_id <= num_steps + RunawaySteps
         /\ Contains(token.ort_value_names, logits_name).first
         /\ req_frame_map' =
              [req_frame_map EXCEPT
                 ![r].stage_id = 0,
                 ![r].token = [cleared EXCEPT
                    !.req_id = r,
                    !.step_id = step_id,
                    !.ort_value_names = <<input_ids_name, position_ids_name>>,
                    !.ort_values = <<HostTensor(input_ids_name, step_id, -1),
                                     HostTensor(position_ids_name, step_id, new_posn_id)>>]]
         /\ tp_tasks' = RunTask(tp_tasks, r, 0)
  /\ resp_queue' = Tail(resp_queue)
  /\ submitted' = submitted + 1
  /\ UNCHANGED <<params, side_vars, next_req_id, pc, req_idx, req_processed, status, resp_list,
                 running, exec_log, raised, done_count, dangling>>

\* The loop condition req_processed < num_reqs fails: Run returns success.
DriverReturn ==
  /\ pc = "loop"
  /\ req_processed >= num_reqs
  /\ pc' = "success"
  /\ UNCHANGED <<params, side_vars, next_req_id, req_idx, req_processed, status, req_frame_map,
                 resp_list, tp_tasks, running, resp_queue, exec_log, submitted, raised,
                 done_count, dangling>>

(* ------------------------------ greedy selection ----------------------- *)
\* Ort::Float16_t values by their 16 bits: 1.0, 2.0 and -1.0
HalfSamples == {15360, 16384, 48128}

\* elem > max on two Ort::Float16_t: the values convert to their 16 bits
Float16Greater(elem, max) == elem > max

\* an element read outside what was written: past the end of the logits, or
\* in tmp's reserved storage
Uninit == -1

\* logits_data[i], i 0-based
LogitsData(logits_data, i) ==
  IF i >= 0 /\ i < Len(logits_data) THEN logits_data[i + 1] ELSE Uninit

\* the first loop: tmp holds, per iteration, the logits_shape[2] elements at
\* seq position logits_shape[1] - 1
GatherLastPosition(logits_data, logits_shape) ==
  LET num_elems == logits_shape[1] * logits_shape[2] * logits_shape[3]
      ltwo == logits_shape[2] * logits_shape[3]
      iters == IF num_elems <= 0 THEN 0 ELSE (num_elems + ltwo - 1) \div ltwo
  IN  [n \in 1..(iters * logits_shape[3]) |->
         LET batch_id == ((n - 1) \div logits_shape[3]) * ltwo
             k == (n - 1) % logits_shape[3]
         IN  LogitsData(logits_data,
                        batch_id + ((logits_shape[2] - 1) * logits_shape[3]) + k)]

\* the positions of tmp the second loop reads that hold nothing written
UninitPositions(logits_data, logits_shape) ==
  LET gathered == GatherLastPosition(logits_data, logits_shape)
  IN  {n \in 1..(logits_shape[1] * logits_shape[3]) :
         n > Len(gathered) \/ gathered[n] = Uninit}

\* the inner loop of the second loop, from index j on
RECURSIVE MaxIdx(_, _, _, _, _)
MaxIdx(row, j, vocab, max, max_idx) ==
  IF j >= vocab THEN max_idx
  ELSE IF Float16Greater(row[j + 1], max)
       THEN MaxIdx(row, j + 1, vocab, row[j + 1], j)
       ELSE MaxIdx(row, j + 1, vocab, max, max_idx)

\* GetNewInputIdsFromLogits; uninit gives what the reads of unwritten
\* elements yield
GetNewInputIdsFromLogits(batch_size, logits_data, logits_shape, uninit) ==
  LET vocab == logits_shape[3]
      new_size == logits_shape[1] * vocab
      gathered == GatherLastPosition(logits_data, logits_shape)
      tmp == [n \in 1..new_size |->
                IF n \in DOMAIN uninit THEN uninit[n] ELSE gathered[n]]
  IN  [input_ids |->
         [b \in 1..(new_size \div vocab) |->
            LET row == [j \in 1..vocab |-> tmp[(b - 1) * vocab + j]]
            IN  MaxIdx(row, 1, vocab, row[1], 0)],
       input_ids_shape |-> <<batch_size, 1>>]

\* the seq-len dim the final stage's session declares for the logits output:
\* dynamic (-1) or fixed
DeclaredSeqDims == {-1} \cup (1..MaxInputSeqLen)

\* a call Run can make: the logits d the final stage produced with shape
\* (b, l, v), its declared output shape with the batch dim replaced by the
\* frame's batch_size
GreedyCall(b, l, v, dl, d) ==
  [pc |-> "call", batch_size |-> b, produced_shape |-> <<b, l, v>>,
   logits_data |-> d, logits_shape |-> <<b, dl, v>>,
   input_ids |-> <<>>, input_ids_shape |-> <<>>]

GreedyInit ==
  /\ RunInit
  /\ cfg_choice = 1 /\ num_steps = 0 /\ num_reqs = 0
  /\ resp_choice = 1 /\ req_choice = 1
  /\ \E b \in 1..MaxBatch, l \in 1..MaxInputSeqLen, v \in 1..MaxVocab :
       \E dl \in DeclaredSeqDims, d \in [1..(b * l * v) -> HalfSamples] :
          greedy_call = GreedyCall(b, l, v, dl, d)
  /\ id_calls = NoIdCalls
  /\ frame_alloc = NoFrameAlloc
  /\ tensor_heap = NoTensorHeap

\* Run calls GetNewInputIdsFromLogits between two steps
GreedySelect ==
  /\ greedy_call.pc = "call"
  /\ \E uninit \in [UninitPositions(greedy_call.logits_data, greedy_call.logits_shape)
                       -> HalfSamples] :
       LET res == GetNewInputIdsFromLogits(greedy_call.batch_size,
                                           greedy_call.logits_data,
                                           greedy_call.logits_shape, uninit)
       IN  greedy_call' = [greedy_call EXCEPT !.pc = "done",
                                               !.input_ids = res.input_ids,
                                               !.input_ids_shape = res.input_ids_shape]
  /\ UNCHANGED <<run_vars, id_calls, frame_alloc, tensor_heap>>

(* ------------------------------ request ids ---------------------------- *)
\* a thread that is not inside CreateRequestId and has made calls calls of it
IdThread(calls) == [pc |-> "idle", tmp |-> 0, calls |-> calls]

\* MaxThreads threads run PipelineSession::Run at the same time; the static
\* counter of CreateRequestId is the one they share
IdInit ==
  /\ RunInit
  /\ cfg_choice = 1 /\ num_steps = 0 /\ num_reqs = 0
  /\ resp_choice = 1 /\ req_choice = 1
  /\ greedy_call = NoGreedyCall
  /\ frame_alloc = NoFrameAlloc
  /\ tensor_heap = NoTensorHeap
  /\ id_calls = [thread |-> [t \in 1..MaxThreads |-> IdThread(0)], returned |-> <<>>]

\* ++req_id on the plain static int, first half: the thread reads the counter
IdLoad(t) ==
  /\ id_calls.thread[t].pc = "idle"
  /\ id_calls.thread[t].calls < MaxCalls
  /\ id_calls' = [id_calls EXCEPT !.thread[t].pc = "loaded",
                                  !.thread[t].tmp = next_req_id]
  /\ UNCHANGED <<run_vars, greedy_call, frame_alloc, tensor_heap>>

\* ++req_id, second half: the thread writes back what it read plus one and
\* returns it
IdStore(t) == id_calls.thread[t].tmp + 1

\* the thread leaves CreateRequestId with the value it wrote
IdReturn(t) ==
  /\ id_calls.thread[t].pc = "loaded"
  /\ next_req_id' = IdStore(t)
  /\ id_calls' = [id_calls EXCEPT !.thread[t] = IdThread(@.calls + 1),
                                  !.returned = Append(@, IdStore(t))]
  /\ UNCHANGED <<params, greedy_call, frame_alloc, tensor_heap, pc, req_idx, req_processed,
                 status, req_frame_map, resp_list, tp_tasks, running, resp_queue, exec_log,
                 submitted, raised, done_count, dangling>>

IdNext == \E t \in 1..MaxThreads : IdLoad(t) \/ IdReturn(t)

\* CreateRequestId called from Run invocations on several threads
IdSpec == IdInit /\ [][IdNext]_vars

(* ------------------------------ frame buffer sizes --------------------- *)
MaxInt32 == 2147483647

MinInt32 == (0 - MaxInt32) - 1

\* the four bytes of a 32-bit int, lowest first (two's complement)
Int32Bytes(x) ==
  <<x % 256, (x \div 256) % 256, (x \div 65536) % 256, (x \div 16777216) % 256>>

\* the int whose four bytes are l
Int32OfBytes(l) ==
  (IF l[4] >= 128 THEN l[4] - 256 ELSE l[4]) * 16777216 + l[3] * 65536 + l[2] * 256 + l[1]

\* a * b on 32-bit ints, keeping the low 32 bits of the product
MulInt32(a, b) ==
  LET x == Int32Bytes(a)
      y == Int32Bytes(b)
      c1 == x[1] * y[1]
      c2 == x[1] * y[2] + x[2] * y[1] + (c1 \div 256)
      c3 == x[1] * y[3] + x[2] * y[2] + x[3] * y[1] + (c2 \div 256)
      c4 == x[1] * y[4] + x[2] * y[3] + x[3] * y[2] + x[4] * y[1] + (c3 \div 256)
  IN  Int32OfBytes(<<c1 % 256, c2 % 256, c3 % 256, c4 % 256>>)

\* the product of the ints a and b is an int
MulFits(a, b) ==
  IF a = 0 THEN TRUE
  ELSE IF a = -1 THEN b # MinInt32
  ELSE MulInt32(a, b) \div a = b

\* std::accumulate(begin, end, 1, std::multiplies<int>()) from element i on:
\* the running product is an int
RECURSIVE AccumulateInt(_, _, _)
AccumulateInt(shape, i, acc) ==
  IF i > Len(shape) THEN acc
  ELSE AccumulateInt(shape, i + 1, MulInt32(acc, shape[i]))

\* some int multiplication of that accumulate overflows
RECURSIVE AccumulateOverflows(_, _, _)
AccumulateOverflows(shape, i, acc) ==
  IF i > Len(shape) THEN FALSE
  ELSE \/ ~MulFits(acc, shape[i])
       \/ AccumulateOverflows(shape, i + 1, MulInt32(acc, shape[i]))

\* sizeof(Ort::Float16_t)
SizeofFloat16 == 2

\* int size_to_allocate = sizeof(Ort::Float16_t) * num_elements: the product
\* is taken in size_t and its low 32 bits are stored
SizeToAllocate(num_elements) == MulInt32(SizeofFloat16, num_elements)

\* a state shape (2, batch, heads, seq, head size) or an inter-stage output
\* shape as the session declares it, dynamic dims being -1
DeclaredDims == {-1, 2, 32768, 65536}

\* pcfg.max_seq_len of the ensembles followed
MaxSeqLens == {2, 32768, 65536}

\* batch_dim_index_in_state and seq_len_dim_index_in_state (0-based)
batch_dim_index_in_state == 1

seq_len_dim_index_in_state == 2

\* the constructor overrides the batch and seq-len dims of the declared shape
OverrideDims(shape, batch_size0, max_seq_len0) ==
  [shape EXCEPT ![batch_dim_index_in_state + 1] = batch_size0,
                ![seq_len_dim_index_in_state + 1] = max_seq_len0]

FrameAllocInit ==
  /\ RunInit
  /\ cfg_choice = 1 /\ num_steps = 0 /\ num_reqs = 0
  /\ resp_choice = 1 /\ req_choice = 1
  /\ greedy_call = NoGreedyCall
  /\ id_calls = NoIdCalls
  /\ tensor_heap = NoTensorHeap
  /\ \E d1 \in DeclaredDims, d2 \in DeclaredDims, b \in 1..MaxBatch, m \in MaxSeqLens :
       frame_alloc = [pc |-> "call", shape |-> <<d1, -1, -1, d2>>, batch_size |-> b,
                      max_seq_len |-> m, num_elements |-> 0, size_to_allocate |-> 0]

\* The constructor computes num_elements and size_to_allocate and calls
\* cuda_allocator->GetAllocation(size_to_allocate) with it.
FrameAllocate ==
  /\ frame_alloc.pc = "call"
  /\ LET shape == OverrideDims(frame_alloc.shape, frame_alloc.batch_size,
                               frame_alloc.max_seq_len)
         num_elements == AccumulateInt(shape, 1, 1)
     IN  frame_alloc' = [frame_alloc EXCEPT !.pc = "allocated",
                                            !.num_elements = num_elements,
                                            !.size_to_allocate = SizeToAllocate(num_elements)]
  /\ UNCHANGED <<run_vars, greedy_call, id_calls, tensor_heap>>

\* An int multiplication of the accumulate overflows and the build traps on
\* signed overflow: the process ends.
FrameAllocateTrap ==
  /\ frame_alloc.pc = "call"
  /\ AccumulateOverflows(OverrideDims(frame_alloc.shape, frame_alloc.batch_size,
                                      frame_alloc.max_seq_len), 1, 1)
  /\ frame_alloc' = [frame_alloc EXCEPT !.pc = "trapped"]
  /\ UNCHANGED <<run_vars, greedy_call, id_calls, tensor_heap>>

FrameAllocNext == FrameAllocate \/ FrameAllocateTrap

\* the buffer size computation of the frame's constructor on the shapes and
\* sizes followed
FrameAllocSpec == FrameAllocInit /\ [][FrameAllocNext]_vars

(* ------------------------------ onnxruntime::Tensor -------------------- *)
\* a null p_data_
NullPtr == 0

\* the shape a moved-from Tensor is given: TensorShape(std::vector<int64_t>(1, 0))
MovedFromShape == <<0>>

\* the shape of the tensors constructed with an allocator
OwnedShape == <<2>>

\* a place in memory that holds no Tensor object
DeadTensor ==
  [state |-> "dead", p_data |-> NullPtr, shape |-> <<>>, byte_offset |-> 0,
   deleters |-> <<>>]

\* Tensor::Init with a deleter, called by the constructor that takes an
\* allocator: the tensor at place this0 gets the buffer p_raw_data and one
\* deleter, a closure that holds the pointer this0
TensorInit(this0, shape, p_raw_data, offset) ==
  [state |-> "owning", p_data |-> p_raw_data, shape |-> shape, byte_offset |-> offset,
   deleters |-> <<[this |-> this0]>>]

\* what other is left as by a move: lines 95-99 and 113-117
MovedFrom ==
  [state |-> "moved_from", p_data |-> NullPtr, shape |-> MovedFromShape,
   byte_offset |-> 0, deleters |-> <<>>]

\* what the closure's read of this->p_data_ yields: the field of the object
\* now at that place, or, when no object lives there any more, anything
ReadPData(heap, this0) ==
  IF heap.obj[this0].state # "dead" THEN {heap.obj[this0].p_data}
  ELSE {NullPtr} \cup heap.buffers

\* Tensor::ReleaseBuffer on the tensor at place s: the addresses it can pass
\* to deleter->Free, in order (a tensor holds at most the one deleter Init
\* gave to the tensor its buffer came from)
ReleaseBuffer(heap, s) ==
  IF heap.obj[s].deleters = <<>> THEN {<<>>}
  ELSE {<<p>> : p \in ReadPData(heap, heap.obj[s].deleters[1].this)}

TensorHeapInit ==
  /\ RunInit
  /\ cfg_choice = 1 /\ num_steps = 0 /\ num_reqs = 0
  /\ resp_choice = 1 /\ req_choice = 1
  /\ greedy_call = NoGreedyCall
  /\ id_calls = NoIdCalls
  /\ frame_alloc = NoFrameAlloc
  /\ tensor_heap = [obj |-> [s \in 1..MaxTensorObjs |-> DeadTensor],
                    buffers |-> {}, freed |-> <<>>]

\* Tensor(p_type, shape, allocator) at place s: allocates and owns a buffer
TensorConstruct(s) ==
  /\ tensor_heap.obj[s].state = "dead"
  /\ Cardinality(tensor_heap.buffers) < MaxAllocs
  /\ LET p_data == Cardinality(tensor_heap.buffers) + 1
     IN  tensor_heap' = [tensor_heap EXCEPT
                           !.obj[s] = TensorInit(s, OwnedShape, p_data, 0),
                           !.buffers = @ \cup {p_data}]
  /\ UNCHANGED <<run_vars, greedy_call, id_calls, frame_alloc>>

\* Tensor(Tensor&& other) at place s
TensorMoveConstruct(s, other) ==
  /\ s # other
  /\ tensor_heap.obj[s].state = "dead"
  /\ tensor_heap.obj[other].state # "dead"
  /\ tensor_heap' = [tensor_heap EXCEPT
                       !.obj[s] = [tensor_heap.obj[other] EXCEPT
                                     !.state = IF tensor_heap.obj[other].deleters # <<>>
                                               THEN "owning" ELSE "moved_from"],
                       !.obj[other] = MovedFrom]
  /\ UNCHANGED <<run_vars, greedy_call, id_calls, frame_alloc>>

\* operator=(Tensor&& other) on the tensor at place s
TensorMoveAssign(s, other) ==
  /\ tensor_heap.obj[s].state # "dead"
  /\ tensor_heap.obj[other].state # "dead"
  /\ IF s = other
     THEN UNCHANGED tensor_heap
     ELSE \E frees \in ReleaseBuffer(tensor_heap, s) :
            tensor_heap' = [tensor_heap EXCEPT
                              !.obj[s] = [tensor_heap.obj[other] EXCEPT
                                            !.state = IF tensor_heap.obj[other].deleters # <<>>
                                                      THEN "owning" ELSE "moved_from"],
                              !.obj[other] = MovedFrom,
                              !.freed = @ \o frees]
  /\ UNCHANGED <<run_vars, greedy_call, id_calls, frame_alloc>>

\* ~Tensor() on the tensor at place s
TensorDestroy(s) ==
  /\ tensor_heap.obj[s].state # "dead"
  /\ \E frees \in ReleaseBuffer(tensor_heap, s) :
       tensor_heap' = [tensor_heap EXCEPT !.obj[s] = DeadTensor,
                                          !.freed = @ \o frees]
  /\ UNCHANGED <<run_vars, greedy_call, id_calls, frame_alloc>>

TensorNext ==
  \E s \in 1..MaxTensorObjs :
     \/ TensorConstruct(s)
     \/ TensorDestroy(s)
     \/ \E other \in 1..MaxTensorObjs : TensorMoveConstruct(s, other)
     \/ \E other \in 1..MaxTensorObjs : TensorMoveAssign(s, other)

\* Tensor objects constructed with an allocator, moved and destroyed
TensorSpec == TensorHeapInit /\ [][TensorNext]_vars

(* ------------------------------ specification -------------------------- *)
Driver ==
  \/ Admit
  \/ AdmitAbort
  \/ AdmitDone
  \/ DriverError
  \/ DriverForward
  \/ DriverFinal
  \/ DriverFinalMissing
  \/ DriverNoLogits
  \/ DriverNextStep
  \/ DriverReturn

Worker ==
  \/ WorkerStart
  \/ WorkerStartAbort
  \/ \E r \in DOMAIN running : WorkerFinish(r)
  \/ \E r \in DOMAIN running : WorkerRaise(r)
  \/ \E r \in DOMAIN running : WorkerAbort(r)

Next == Driver \/ Worker

Spec == Init /\ [][Next]_vars

\* the driver thread and the pool's threads keep running
FairSpec == Spec /\ WF_vars(Driver) /\ WF_vars(Worker)

GreedyNext == GreedySelect

\* the greedy selection applied to every call Run can make
GreedySpec == GreedyInit /\ [][GreedyNext]_vars

(* ------------------------------ properties ----------------------------- *)
\* the configuration and the requests satisfy what Run and ProcessRequest
\* assert of them: the requests carry stage 0's input_to_use_for_seq_len and no
\* output name is both a state output and an inter-stage output
AssertsHold ==
  /\ Contains(input_names_of_req, model_config_vec[1].input_to_use_for_seq_len).first
  /\ \A g \in 1..num_stages :
       \A oname \in Range(model_config_vec[g].output_names) :
          ~LoopBackAndInterStage(model_config_vec[g], oname)

\* the k-th (1-based) pair of (0,0),(1,0),...,(N-1,0),(0,1),...,(N-1,num_steps-1)
ExpectedPair(k) == <<(k - 1) % num_stages, (k - 1) \div num_stages>>

\* tasks of request r pending in the pool, executing, or with their token queued
InFlight(r) ==
  Cardinality({i \in 1..Len(tp_tasks) : tp_tasks[i].req_id = r})
  + (IF r \in DOMAIN running THEN 1 ELSE 0)
  + Cardinality({i \in 1..Len(resp_queue) : resp_queue[i] = r})

\* C1: for num_steps >= 1 the (stage, step) pairs executed for a request are,
\* in order and without gap or repetition, (0,0),(1,0),...,(N-1,0),(0,1),...;
\* nothing runs after (N-1,num_steps-1); when Run returns success every
\* request has executed the whole sequence.
C1_PerRequestOrdering ==
  num_steps >= 1 =>
    \A r \in DOMAIN exec_log :
      /\ Len(exec_log[r]) <= num_stages * num_steps
      /\ \A k \in 1..Len(exec_log[r]) : exec_log[r][k] = ExpectedPair(k)
      /\ pc = "success" => Len(exec_log[r]) = num_stages * num_steps

C1_Witness ==
  /\ pc = "success"
  /\ num_reqs >= 2 /\ num_stages >= 2 /\ num_steps >= 2
  /\ \A r \in DOMAIN exec_log : Len(exec_log[r]) = num_stages * num_steps

\* C2: a request never has more than one task pending or executing or token
\* queued: its token is in one place, so the driver (which acts on the token
\* it dequeued) and a worker never hold the same frame, nor do two workers.
\* While a task of the request is pending or executing, the frame's stage_id
\* and the token's step_id are those the task was submitted with.
C2_OneTaskPerRequest ==
  \A r \in DOMAIN req_frame_map :
    /\ InFlight(r) <= 1
    /\ r \in DOMAIN running =>
         /\ running[r].stage = req_frame_map[r].stage_id
         /\ running[r].model_idx = req_frame_map[r].stage_id
         /\ running[r].step_id = req_frame_map[r].token.step_id
    /\ \A i \in 1..Len(tp_tasks) :
         tp_tasks[i].req_id = r => tp_tasks[i].stage = req_frame_map[r].stage_id

C2_Witness ==
  /\ num_reqs >= 2
  /\ Cardinality(DOMAIN running) >= 2
  /\ \E r \in DOMAIN running : req_frame_map[r].token.step_id >= 1

(* the stage g (1-based) of request r has bound its outputs at least once and
   no invocation of it is in progress *)
StageIdle(r, g) ==
  /\ DOMAIN req_frame_map[r].model_run_state_vec[g].bound_outputs # {}
  /\ ~(r \in DOMAIN running /\ running[r].model_idx = g - 1)

\* the step of the latest invocation of stage g (1-based) of request r
LastStep(r, g) ==
  req_frame_map[r].model_run_state_vec[g].bound_outputs[
     model_config_vec[g].output_names[1]].step

\* C3: after a worker invocation of a stage finished step s, output_val_map
\* holds, for every present output name, the tensor that invocation produced,
\* whose seq-len is orig_input_seq_len + s (later steps feed seq-len 1).
C3_StateSavedAfterStep ==
  AssertsHold =>
  \A r \in DOMAIN req_frame_map \ raised :
    \A g \in 1..num_stages :
      StageIdle(r, g) =>
        \A p \in Range(model_config_vec[g].present_output_names) :
          LET rs == req_frame_map[r].model_run_state_vec[g]
          IN  /\ rs.output_val_map[p] = rs.bound_outputs[p]
              /\ rs.output_val_map[p].seqlen =
                   req_frame_map[r].orig_input_seq_len + LastStep(r, g)

\* the buffer the claim names for the past inputs of step s
RotationInputBuffer(s) == IF s % 2 = 0 THEN "buf1" ELSE "buf2"

\* the buffer the claim names for the present outputs of step s
RotationOutputBuffer(s) == IF s % 2 = 0 THEN "buf2" ELSE "buf1"

\* C4: in every invocation of step s >= 1, the tensor bound as past input k
\* is backed by buffer 1 iff s is even and by buffer 2 iff s is odd, and the
\* tensor bound as present output k by the other buffer.
C4_BufferRotation ==
  AssertsHold =>
  \A r \in DOMAIN req_frame_map :
    \A g \in 1..num_stages :
      LET rs == req_frame_map[r].model_run_state_vec[g]
          mcfg == model_config_vec[g]
      IN  (DOMAIN rs.bound_outputs # {} /\ LastStep(r, g) >= 1) =>
            \A k \in 1..Len(mcfg.past_input_names) :
              /\ rs.bound_inputs[mcfg.past_input_names[k]].buf
                   = RotationInputBuffer(LastStep(r, g))
              /\ rs.bound_outputs[mcfg.present_output_names[k]].buf
                   = RotationOutputBuffer(LastStep(r, g))

\* C5: in every invocation, the buffer behind the tensor bound as past input k
\* differs from the buffer behind the tensor bound as present output k.
C5_NoStateAliasing ==
  AssertsHold =>
  \A r \in DOMAIN req_frame_map :
    \A g \in 1..num_stages :
      LET rs == req_frame_map[r].model_run_state_vec[g]
          mcfg == model_config_vec[g]
      IN  DOMAIN rs.bound_outputs # {} =>
            \A k \in 1..Len(mcfg.past_input_names) :
              rs.bound_inputs[mcfg.past_input_names[k]].buf
                # rs.bound_outputs[mcfg.present_output_names[k]].buf

\* C6: the tensor bound to input n of stage i+1 is the tensor stage i produced
\* for output o in the same step, for every (o -> n) of stage i's
\* inter_stage_output_input_map with n among stage i+1's input names.
C6_InterStageRename ==
  AssertsHold =>
  \A r \in DOMAIN req_frame_map :
    \A g \in 2..num_stages :
      LET rs == req_frame_map[r].model_run_state_vec[g]
          iomap == model_config_vec[g - 1].inter_stage_output_input_map
      IN  DOMAIN rs.bound_outputs # {} =>
            \A o \in DOMAIN iomap :
              iomap[o] \in Range(model_config_vec[g].input_names) =>
                /\ rs.bound_inputs[iomap[o]].kind = "out"
                /\ rs.bound_inputs[iomap[o]].stage = g - 2
                /\ rs.bound_inputs[iomap[o]].step = LastStep(r, g)
                /\ rs.bound_inputs[iomap[o]].name = o

\* the tensor the final stage produced for output oname in the last step
IsFinalOutput(t, oname) ==
  /\ t.kind = "out"
  /\ t.stage = num_stages - 1
  /\ t.step = num_steps - 1
  /\ t.name = oname

C8_ZeroStepsSuccess ==
  (num_steps = 0 /\ num_reqs > 0 /\ AssertsHold) =>
    /\ \A r \in DOMAIN req_frame_map : req_frame_map[r].token.step_id <= num_steps
    /\ pc = "failed" => raised # {}

Returned == pc \in {"success", "failed"}

\* Run returned success after every request completed num_steps steps, or
\* failure with a message
ReturnedProperly ==
  \/ /\ pc = "success"
     /\ \A r \in 1..num_reqs :
          /\ done_count[r] = 1
          /\ Len(exec_log[r]) = num_stages * num_steps
  \/ /\ pc = "failed"
     /\ status # NoError

C10_ErrorTokenFailsRun ==
  [][/\ pc' = "success" => raised' = {}
     /\ (pc = "loop" /\ resp_queue # <<>> /\ resp_queue' = Tail(resp_queue)
         /\ req_frame_map[Head(resp_queue)].token.error_msg # NoError) =>
          /\ pc' = "failed"
          /\ status' = Msg("Error in processing request id: ", Head(resp_queue), "")
          /\ Head(resp_queue) \in raised
          /\ submitted' = submitted
     /\ Returned => (pc' = pc /\ status' = status /\ submitted' = submitted)]_vars

C10_Witness ==
  /\ pc = "failed"
  /\ status.text = "Error in processing request id: "
  /\ status.req_id = 2
  /\ raised = {1, 2}

\* the names the final stage's invocation appends to the token
FinalStageTokenNames ==
  LET mcfg == model_config_vec[num_stages]
      iomap == mcfg.inter_stage_output_input_map
  IN  {iomap[o] : o \in {x \in Range(mcfg.output_names) :
                           /\ ~Contains(mcfg.present_output_names, x).first
                           /\ x \in DOMAIN iomap}}

\* the caller's output names the final stage does not place in the token
MissingRequested ==
  {n \in Range(output_names_of_resp) : n \notin FinalStageTokenNames}

\* the invocation of request r that raised did so in its output binding
RaisedInBinding(r) ==
  LET exec_frame == req_frame_map[r]
  IN  OutputBindingThrows(model_config_vec[exec_frame.stage_id + 1],
                          exec_frame.model_run_state_vec[exec_frame.stage_id + 1])

\* no stage run failed: every raise came from ProcessRequest's own binding code
NoStageRunFailed == \A r \in raised : RaisedInBinding(r)

\* C11: for num_steps >= 1 and a non-empty request list, when the callers
\* request an output name the final stage does not place in the token and no
\* stage run fails, Run does not
\* return success, and the failure it returns says that this output is not
\* produced by the final stage.
C11_MissingOutputReported ==
  (/\ num_steps >= 1 /\ num_reqs >= 1 /\ AssertsHold
   /\ MissingRequested # {} /\ NoStageRunFailed) =>
    /\ pc # "success"
    /\ pc = "failed" =>
         /\ status.text = "Error: Output is not produced by the final stage"
         /\ status.oname \in MissingRequested

\* the response slots as the caller passed them in
CallerSlots ==
  [j \in 1..Len(output_names_of_resp) |-> CallerSlot(output_names_of_resp[j], j - 1)]

\* C12: when Run returned failure, the response slots of every request that
\* was not marked complete are as the caller passed them in, also those of
\* the request whose final-output lookup failed on a later name.
C12_FailureLeavesSlots ==
  (pc = "failed" /\ AssertsHold) =>
    \A r \in DOMAIN req_frame_map :
      done_count[r] = 0 => resp_list[req_frame_map[r].req_index + 1] = CallerSlots

\* C13: with a configuration in which an output name of some stage is both a
\* present output name and a key of inter_stage_output_input_map, no worker
\* invocation is executed for any request and Run does not get past admission.
C13_CollidingConfigRejected ==
  (/\ num_reqs >= 1 /\ num_steps >= 1
   /\ Contains(input_names_of_req, model_config_vec[1].input_to_use_for_seq_len).first
   /\ \E g \in 1..num_stages :
        \E oname \in Range(model_config_vec[g].output_names) :
           LoopBackAndInterStage(model_config_vec[g], oname)) =>
    /\ \A r \in DOMAIN exec_log : exec_log[r] = <<>>
    /\ pc \notin {"loop", "success"}

\* C14: when the requests' input_names lack stage 0's
\* input_to_use_for_seq_len, Run fails at admission with a failure status: no
\* frame is constructed and no task submitted, and Run neither goes on to the
\* main loop nor ends otherwise than by returning the failure.
C14_MissingSeqLenInputFailsAdmission ==
  (/\ num_reqs >= 1 /\ num_steps >= 1
   /\ ~Contains(input_names_of_req, model_config_vec[1].input_to_use_for_seq_len).first) =>
    /\ DOMAIN req_frame_map = {}
    /\ submitted = 0
    /\ pc \in {"admit", "failed"}
    /\ pc = "failed" => status # NoError

\* C15: the tokens held by pending tasks and by workers, those in the response
\* queue and those of the completed requests together never outnumber the
\* requests admitted so far, and no request's token is in two of these places.
C15_TokenConservation ==
  /\ Len(tp_tasks) + Cardinality(DOMAIN running) + Len(resp_queue) + req_processed
       <= req_idx
  /\ \A r \in DOMAIN req_frame_map : InFlight(r) + done_count[r] <= 1

C15_Witness ==
  /\ req_idx = MaxReqs
  /\ req_processed = 1
  /\ Len(tp_tasks) + Cardinality(DOMAIN running) + Len(resp_queue) = 1
  /\ \E r \in DOMAIN req_frame_map : req_frame_map[r].token.step_id >= 1 /\ InFlight(r) = 1

\* C16: while Run is in progress every request admitted so far has its frame
\* in req_frame_map under its req_id, the frame and its token carry that id,
\* and every task, executing invocation and queued token names a req_id the
\* map holds, so the lookup for a dequeued token never misses.
C16_FrameLifetime ==
  pc \in {"admit", "loop"} =>
    /\ \A i \in 0..(req_idx - 1) :
         \E r \in DOMAIN req_frame_map : req_frame_map[r].req_index = i
    /\ \A r \in DOMAIN req_frame_map :
         req_frame_map[r].req_id = r /\ req_frame_map[r].token.req_id = r
    /\ \A k \in 1..Len(tp_tasks) : tp_tasks[k].req_id \in DOMAIN req_frame_map
    /\ DOMAIN running \subseteq DOMAIN req_frame_map
    /\ \A k \in 1..Len(resp_queue) : resp_queue[k] \in DOMAIN req_frame_map

C16_Witness ==
  /\ pc = "loop"
  /\ Cardinality(DOMAIN req_frame_map) = MaxReqs
  /\ resp_queue # <<>>
  /\ \E r \in DOMAIN req_frame_map : done_count[r] = 1
  /\ \E r \in DOMAIN req_frame_map : r \in raised

\* C17: when Run returns success for R requests on N stages with
\* num_steps = S >= 1, the driver has submitted R * N * S tasks.
C17_TasksSubmitted ==
  (pc = "success" /\ num_steps >= 1) =>
    submitted = num_reqs * num_stages * num_steps

C17_Witness ==
  /\ pc = "success"
  /\ num_reqs = 2 /\ num_stages = 2 /\ num_steps = 2
  /\ submitted = 8

\* C20: for every step s with 1 <= s < num_steps, the token of the stage-0
\* task of step s carries the names [input_ids_name, position_ids_name] and
\* step_id = s, s being the number of steps the request completed; the
\* position_ids tensor stage 0 is fed has seq-len 1 (shape (batch, 1)) and
\* what the stage reads from it is orig_input_seq_len + s - 1.
C20_PositionIdsOfStep ==
  AssertsHold =>
    /\ \A k \in 1..Len(tp_tasks) :
         LET token == req_frame_map[tp_tasks[k].req_id].token
         IN  (tp_tasks[k].stage = 0 /\ token.step_id >= 1 /\ token.step_id < num_steps) =>
               /\ token.ort_value_names = <<input_ids_name, position_ids_name>>
               /\ Len(exec_log[tp_tasks[k].req_id]) = num_stages * token.step_id
    /\ \A r \in DOMAIN running :
         LET run == running[r]
         IN  (run.stage = 0 /\ run.step_id >= 1 /\ run.step_id < num_steps) =>
               /\ run.in_names = <<input_ids_name, position_ids_name>>
               /\ run.in_values[2].name = position_ids_name
               /\ run.in_values[2].seqlen = 1
               /\ run.host_reads[2] = req_frame_map[r].orig_input_seq_len + run.step_id - 1

\* the logits the final stage produced for batch row b (1-based) at the last
\* seq position of the produced tensor
LastPositionRow(b) ==
  LET l == greedy_call.produced_shape[2]
      v == greedy_call.produced_shape[3]
  IN  [j \in 1..v |-> greedy_call.logits_data[(b - 1) * l * v + (l - 1) * v + j]]

\* C18: the selection emits batch values of shape (batch, 1); the value of
\* row b is the smallest index no other index of which is greater, in the
\* order the selection compares in, among the logits at the last seq
\* position of the tensor produced in the step.
C18_GreedyLastPosition ==
  greedy_call.pc = "done" =>
    /\ Len(greedy_call.input_ids) = greedy_call.batch_size
    /\ greedy_call.input_ids_shape = <<greedy_call.batch_size, 1>>
    /\ \A b \in 1..greedy_call.batch_size :
         LET row == LastPositionRow(b)
         IN  greedy_call.input_ids[b] =
               MinOf({v \in 0..(Len(row) - 1) :
                        \A w \in 0..(Len(row) - 1) : ~(row[w + 1] > row[v + 1])})

\* an integer that orders the non-NaN binary16 values as their numeric
\* values do: the magnitude bits, negated when the sign bit is set
HalfOrderKey(h) == IF h < 32768 THEN h ELSE 0 - (h - 32768)

\* the 16 bits encode a NaN: exponent all ones, mantissa not zero
HalfIsNaN(h) == (h % 32768) > 31744

\* C19: when the declared and the produced logits shapes agree, for every
\* row without NaN the selected index is the smallest index whose binary16
\* value is numerically maximal in the row.
C19_GreedyNumericOrder ==
  (greedy_call.pc = "done" /\ greedy_call.logits_shape = greedy_call.produced_shape) =>
    \A b \in 1..greedy_call.batch_size :
      LET row == LastPositionRow(b)
      IN  (\A j \in 1..Len(row) : ~HalfIsNaN(row[j])) =>
            greedy_call.input_ids[b] =
              MinOf({v \in 0..(Len(row) - 1) :
                       \A w \in 0..(Len(row) - 1) :
                          HalfOrderKey(row[w + 1]) <= HalfOrderKey(row[v + 1])})

\* C21: over any interleaving of CreateRequestId calls, also from Run
\* invocations on different threads, every call returns a value greater than
\* (so distinct from) every value returned by a call that completed before it.
C21_RequestIdsIncrease ==
  \A i \in 1..Len(id_calls.returned) :
    \A j \in 1..Len(id_calls.returned) :
      i < j => id_calls.returned[i] < id_calls.returned[j]

\* the element count of the overridden shape times the element size is a
\* 32-bit signed int
RECURSIVE SizeFitsInt32(_, _, _)
SizeFitsInt32(shape, i, count) ==
  IF i > Len(shape) THEN count * SizeofFloat16 <= MaxInt32 /\ count * SizeofFloat16 >= MinInt32
  ELSE /\ (IF count < 0 THEN 0 - count ELSE count)
            <= MaxInt32 \div (SizeofFloat16 * (IF shape[i] < 0 THEN 0 - shape[i] ELSE shape[i]))
       /\ SizeFitsInt32(shape, i + 1, count * shape[i])

\* C22: when the element count of the shape with the batch and seq-len dims
\* overridden, times the element size, does not fit a 32-bit signed int, or a
\* remaining dim is negative, the constructor does not go on to request an
\* allocation.
C22_OversizedBufferIsFatal ==
  frame_alloc.pc = "allocated" =>
    LET shape == OverrideDims(frame_alloc.shape, frame_alloc.batch_size,
                              frame_alloc.max_seq_len)
    IN  /\ \A i \in 1..Len(shape) : shape[i] >= 0
        /\ SizeFitsInt32(shape, 1, 1)

\* the tensors ProcessRequest creates over a preallocated buffer of the frame
IsPreallocView(t) == t.kind = "out" /\ t.buf \in {"buf1", "buf2", "inter"}

\* C23: the seq-len of every view ProcessRequest creates over a preallocated
\* buffer is at most max_seq_len, and a request whose orig_input_seq_len +
\* num_steps exceeds max_seq_len is rejected at admission: no worker
\* invocation runs for it.
C23_SeqLenWithinBuffers ==
  (num_steps >= 1 /\ AssertsHold) =>
    \A r \in DOMAIN req_frame_map :
      /\ \A g \in 1..num_stages :
           LET bound == req_frame_map[r].model_run_state_vec[g].bound_outputs
           IN  \A o \in DOMAIN bound :
                 IsPreallocView(bound[o]) => bound[o].seqlen <= max_seq_len
      /\ req_frame_map[r].orig_input_seq_len + num_steps > max_seq_len =>
           exec_log[r] = <<>>

\* the seq-len of the first tensor of the token that carries the name n
TokenSeqLen(token, n) ==
  token.ort_values[MinOf({i \in 1..Len(token.ort_value_names) :
                            token.ort_value_names[i] = n})].seqlen

\* C24: in every worker invocation every present output k is bound to a view
\* over buffer 2 [k] when the token's step_id is even and over buffer 1 [k]
\* when it is odd, whose batch dim is the frame's batch_size and whose
\* seq-len dim is input_seq_len + past_seq_len.
C24_PresentOutputViews ==
  [][AssertsHold =>
       \A r \in DOMAIN running' \ DOMAIN running :
         LET frame == req_frame_map[r]
             g == frame.stage_id + 1
             mcfg == model_config_vec[g]
             input_seq_len == TokenSeqLen(frame.token, mcfg.input_to_use_for_seq_len)
             past_seq_len ==
               frame.model_run_state_vec[g].output_val_map[mcfg.present_output_names[1]].seqlen
             bound == req_frame_map'[r].model_run_state_vec[g].bound_outputs
         IN  \A k \in 1..Len(mcfg.present_output_names) :
               LET view == bound[mcfg.present_output_names[k]]
               IN  /\ view.buf = (IF frame.token.step_id % 2 = 0 THEN "buf2" ELSE "buf1")
                   /\ view.idx = k - 1
                   /\ view.batch = frame.batch_size
                   /\ view.seqlen = input_seq_len + past_seq_len]_vars

C24_Witness ==
  \E r \in DOMAIN running :
    LET bound == req_frame_map[r].model_run_state_vec[1].bound_outputs
    IN  /\ num_stages = 2
        /\ running[r].stage = 0
        /\ running[r].step_id = 1
        /\ bound["present_1"].buf = "buf1"
        /\ bound["present_1"].idx = 1
        /\ bound["present_1"].batch = MainBatchSize
        /\ bound["present_1"].seqlen = 1

\* C25: in a worker invocation the bindings are exactly those of this
\* invocation: every name of the stage's input_names the token carries is
\* bound to the token's tensor, also when it is a past input name; otherwise a
\* name that is past_input_names[k] is bound to the tensor held under
\* present_output_names[k] in output_val_map; otherwise it is left unbound.
C25_InputBindingPrecedence ==
  \A r \in DOMAIN running :
    LET run == running[r]
        mcfg == model_config_vec[run.model_idx + 1]
        rs == req_frame_map[r].model_run_state_vec[run.model_idx + 1]
        carried(n) == {i \in 1..Len(run.in_names) : run.in_names[i] = n}
        past(n) == {k \in 1..Len(mcfg.past_input_names) : mcfg.past_input_names[k] = n}
    IN  /\ DOMAIN rs.bound_inputs = Range(mcfg.input_names)
        /\ \A n \in Range(mcfg.input_names) :
             IF carried(n) # {}
             THEN \E i \in carried(n) : rs.bound_inputs[n] = run.in_values[i]
             ELSE IF past(n) # {}
                  THEN \E k \in past(n) :
                         rs.bound_inputs[n] = rs.output_val_map[mcfg.present_output_names[k]]
                  ELSE rs.bound_inputs[n] = Unbound

C25_Witness ==
  \E r \in DOMAIN running :
    LET rs == req_frame_map[r].model_run_state_vec[1]
    IN  /\ running[r].in_names = <<"input_ids", "position_ids", "past_0">>
        /\ rs.bound_inputs["past_0"] = running[r].in_values[3]
        /\ rs.bound_inputs["past_0"].kind = "input"
        /\ rs.bound_inputs["past_0"] # rs.output_val_map["present_0"]

\* the driver dequeues the token of request r, which carries no error
DequeuesNonError(r) ==
  /\ pc = "loop"
  /\ resp_queue # <<>>
  /\ Head(resp_queue) = r
  /\ resp_queue' = Tail(resp_queue)
  /\ req_frame_map[r].token.error_msg = NoError

\* C26: on every non-error token the driver dequeues, the frame's stage_id
\* becomes (stage_id + 1) mod N.  When the result is not 0 the token is
\* resubmitted to that stage with req_id and step_id unchanged.  When it is 0
\* (always, for N = 1) the step counter advances by one: at num_steps the
\* driver finishes the request (marks it complete, or returns the failure of
\* the final-output lookup), below it the driver starts the next step (a
\* stage-0 task with the advanced step_id, or the failure of the logits
\* lookup).  A worker runs with the config of the stage equal to stage_id.
C26_StageAdvance ==
  [][/\ \A r \in DOMAIN req_frame_map :
          DequeuesNonError(r) =>
            LET frame == req_frame_map[r]
                token == frame.token
                next_stage == (frame.stage_id + 1) % num_stages
                token2 == req_frame_map'[r].token
            IN  /\ req_frame_map'[r].stage_id = next_stage
                /\ next_stage # 0 =>
                     /\ tp_tasks' = Append(tp_tasks, [req_id |-> r, stage |-> next_stage])
                     /\ token2.req_id = token.req_id
                     /\ token2.step_id = token.step_id
                     /\ pc' = "loop"
                /\ next_stage = 0 =>
                     IF token.step_id + 1 = num_steps
                     THEN /\ tp_tasks' = tp_tasks
                          /\ \/ /\ done_count'[r] = done_count[r] + 1
                                /\ req_processed' = req_processed + 1
                                /\ pc' = "loop"
                             \/ /\ pc' = "failed"
                                /\ status'.text
                                     = "Error: Output is not produced by the final stage"
                     ELSE \/ /\ tp_tasks' = Append(tp_tasks, [req_id |-> r, stage |-> 0])
                             /\ token2.req_id = r
                             /\ token2.step_id = token.step_id + 1
                             /\ pc' = "loop"
                          \/ /\ pc' = "failed"
                             /\ status' = NoLogitsMsg
                             /\ tp_tasks' = tp_tasks
     /\ \A r \in DOMAIN running' \ DOMAIN running :
          (pc \in {"admit", "loop"}) =>
             /\ running'[r].stage = req_frame_map[r].stage_id
             /\ running'[r].model_idx = req_frame_map[r].stage_id]_vars

C26_Witness ==
  /\ num_stages = 3
  /\ pc = "loop"
  /\ \E r \in DOMAIN running :
       /\ running[r].stage = 2
       /\ running[r].step_id = 1
       /\ req_frame_map[r].stage_id = 2
  /\ \E r \in DOMAIN req_frame_map :
       /\ req_frame_map[r].stage_id = 0
       /\ req_frame_map[r].token.step_id = 1
       /\ \E k \in 1..Len(tp_tasks) : tp_tasks[k] = [req_id |-> r, stage |-> 0]

\* C27: every task the pool executes puts exactly one token on the response
\* queue when it ends, whether the stage run succeeded or raised, and nothing
\* else puts one; after a raise the token is the frame's own, carries the
\* invocation's req_id and step_id and a non-empty error_msg; after a success
\* its error_msg is empty.
C27_OneTokenPerTask ==
  [][/\ \A r \in DOMAIN running :
          r \notin DOMAIN running' =>
            LET token2 == req_frame_map'[r].token
            IN  /\ resp_queue' = Append(resp_queue, r)
                /\ IF raised' # raised
                   THEN /\ raised' = raised \cup {r}
                        /\ token2.error_msg # NoError
                        /\ token2.req_id = r
                        /\ token2.step_id = running[r].step_id
                   ELSE token2.error_msg = NoError
     /\ Len(resp_queue') > Len(resp_queue) =>
          /\ Len(resp_queue') = Len(resp_queue) + 1
          /\ Cardinality(DOMAIN running \ DOMAIN running') = 1]_vars

C27_Witness ==
  /\ pc = "loop"
  /\ \E i \in 1..Len(resp_queue) :
       /\ resp_queue[i] \in raised
       /\ req_frame_map[resp_queue[i]].token.error_msg # NoError
       /\ req_frame_map[resp_queue[i]].token.step_id = 1
  /\ \E j \in 1..Len(resp_queue) :
       /\ resp_queue[j] \notin raised
       /\ req_frame_map[resp_queue[j]].token.error_msg = NoError

\* C28: whenever Run has returned, with success or with failure, no task it
\* submitted is pending or executing in the pool, and none has run since the
\* return.
C28_NoTaskOutlivesRun ==
  (Returned /\ num_steps >= 1 /\ AssertsHold) =>
    /\ tp_tasks = <<>>
    /\ DOMAIN running = {}
    /\ ~dangling

\* C29: the host buffers behind the input_ids and position_ids tensors the
\* driver builds for a step are not released while the stage-0 task of that
\* step is pending or executing, and what the invocation reads from them is
\* what the driver wrote.
C29_HostBuffersOutliveTask ==
  (AssertsHold /\ num_steps >= 1) =>
    /\ \A k \in 1..Len(tp_tasks) :
         LET values == req_frame_map[tp_tasks[k].req_id].token.ort_values
         IN  \A i \in 1..Len(values) :
               values[i].kind = "host" => ~HostBufferReleased(values[i])
    /\ \A r \in DOMAIN running :
         \A i \in 1..Len(running[r].in_values) :
           running[r].in_values[i].kind = "host" =>
             /\ ~HostBufferReleased(running[r].in_values[i])
             /\ running[r].host_reads[i] = running[r].in_values[i].val

\* the number of Free calls made with the address a
TimesFreed(a) ==
  Cardinality({i \in 1..Len(tensor_heap.freed) : tensor_heap.freed[i] = a})

\* the places whose tensor holds the buffer a
Holders(a) ==
  {s \in 1..MaxTensorObjs :
     tensor_heap.obj[s].state # "dead" /\ tensor_heap.obj[s].p_data = a}

\* C30: after any sequence of move constructions and move assignments of
\* tensors constructed with an allocator, every Free call was made with the
\* address of a buffer, a buffer some tensor holds has not been freed, a
\* buffer whose tensor was destroyed or overwritten has been freed exactly
\* once, and a moved-from tensor has a null data pointer, shape [0], byte
\* offset 0 and no deleters.
C30_BufferFreedOnce ==
  /\ \A i \in 1..Len(tensor_heap.freed) : tensor_heap.freed[i] \in tensor_heap.buffers
  /\ \A a \in tensor_heap.buffers :
       /\ Cardinality(Holders(a)) <= 1
       /\ TimesFreed(a) = (IF Holders(a) = {} THEN 1 ELSE 0)
  /\ \A s \in 1..MaxTensorObjs :
       tensor_heap.obj[s].state = "moved_from" => tensor_heap.obj[s] = MovedFrom

====
